---- MODULE Spec2Model ----
(***************************************************************************)
(* Geodata caching and route composition of the Walking AI Assistant       *)
(* (src/location_service.py): OpenStreetMapService.get_pois_around_point,  *)
(* RoutingService.get_walking_route and                                    *)
(* RoutingService.generate_scenic_route, over the two on-disk caches       *)
(* cache/osm and cache/routes.                                             *)
(*                                                                         *)
(* Spec        the server as src/api.py runs it: every handler is an       *)
(*             `async def` that calls the blocking services directly, so   *)
(*             one request runs to completion before the next starts.      *)
(* SpecScenic  one scenic composition after the other, leg by leg.         *)
(* SpecConc    several workers that share the cache directories and        *)
(*             interleave at the granularity of file operations.           *)
(* SpecPois    the /pois handler, answered with every kind of element.     *)
(* SpecSuggest the /routes/suggest handler (src/api.py, suggest_route of   *)
(*             src/assistant_service.py).                                  *)
(***************************************************************************)
EXTENDS Integers, Sequences, FiniteSets, TLC

VARIABLES
    osmFiles,     \* cache/osm:    cache key -> text of the file
    routeFiles,   \* cache/routes: cache key -> text of the file
    firstPoi,     \* history: arguments -> document of the first successful POI lookup
    firstRoute,   \* history: arguments -> document of the first successful routing lookup
    last,         \* history: the lookup that completed last in Spec
    nreq,         \* number of requests started
    sc,           \* the local variables of generate_scenic_route
    legLog,       \* history: the calls generate_scenic_route made to get_walking_route
    wk,           \* SpecConc: the local variables of every worker
    poisReq,      \* SpecPois: the last call of the /pois handler and what Overpass sent
    rq,           \* SpecSuggest: the local variables of the /routes/suggest handler
    users         \* the users table: user_id -> preferred_max_distance

vars == <<osmFiles, routeFiles, firstPoi, firstRoute, last, nreq, sc, legLog, wk,
         poisReq, rq, users>>

(***************************************************************************)
(* Bounds                                                                  *)
(***************************************************************************)
MaxBody == 2       \* elements in one Overpass response to a direct POI lookup
MaxElements == 3   \* elements in one Overpass response to the scenic composer
MaxRequests == 2   \* requests handled in one behaviour
MaxOps == 2        \* lookups one worker of SpecConc performs
MaxSuggest == 1    \* route suggestions handled in one behaviour of SpecSuggest
NumWorkers == 2    \* workers of SpecConc

(***************************************************************************)
(* Values                                                                  *)
(***************************************************************************)
\* A Python float is written as a 1-tuple, so that a float and a position
\* (a list [lon, lat] of two floats) are values TLC can compare.
Num(n) == <<n>>

\* Python's None, as a document.
None == [type |-> "None"]

\* src/location_service.py:26-35
DefaultPoiTypes ==
    <<"leisure=park", "natural=wood", "amenity=cafe", "amenity=restaurant",
      "tourism=attraction", "historic=monument", "shop=bakery", "amenity=bench">>

\* src/location_service.py:212
ScenicPoiTypes ==
    <<"leisure=park", "natural=wood", "tourism=attraction", "historic=monument">>

\* The poi_types argument: omitted (None) or a list of filters.
NoTypes == [given |-> FALSE, value |-> <<>>]
Types(s) == [given |-> TRUE, value |-> s]

(***************************************************************************)
(* A Python dict with string keys: the sequence of its <<key, value>>      *)
(* items in insertion order, every key at most once.                       *)
(***************************************************************************)
DictHas(d, k) == \E i \in DOMAIN d : d[i][1] = k

DictGet(d, k) == d[CHOOSE i \in DOMAIN d : d[i][1] = k][2]

\* d[k] = v: an existing key keeps its place, a new key goes last.
DictSet(d, k, v) ==
    IF DictHas(d, k)
    THEN [i \in DOMAIN d |-> IF d[i][1] = k THEN <<k, v>> ELSE d[i]]
    ELSE Append(d, <<k, v>>)

(***************************************************************************)
(* The map-data provider (Overpass): raw elements and responses            *)
(***************************************************************************)
NodePark ==
    [type |-> "node", id |-> 1, lat |-> Num(10), lon |-> Num(20),
     tags |-> << <<"leisure", "park">>, <<"name", "Green">> >>]
NodeAttraction ==
    [type |-> "node", id |-> 2, lat |-> Num(11), lon |-> Num(21),
     tags |-> << <<"tourism", "attraction">> >>]
WayWood ==
    [type |-> "way", id |-> 3,
     geometry |-> <<[lat |-> Num(12), lon |-> Num(22)], [lat |-> Num(13), lon |-> Num(23)]>>,
     tags |-> << <<"natural", "wood">> >>]
NodeParkMonument ==
    [type |-> "node", id |-> 4, lat |-> Num(14), lon |-> Num(24),
     tags |-> << <<"historic", "monument">>, <<"leisure", "park">> >>]
RelationPark ==
    [type |-> "relation", id |-> 5, tags |-> << <<"leisure", "park">> >>]
WayNoGeometry ==
    [type |-> "way", id |-> 6, tags |-> << <<"natural", "wood">> >>]

NodeBare == [type |-> "node", id |-> 7, lat |-> Num(15), lon |-> Num(25)]
AreaPark == [type |-> "area", id |-> 8, tags |-> << <<"leisure", "park">> >>]

Elements ==
    {NodePark, NodeAttraction, WayWood, NodeParkMonument, RelationPark, WayNoGeometry}

\* The elements the /pois handler of SpecPois is answered with: with and
\* without tags, of every type the conversion tells apart and of another one.
AllElements == Elements \cup {NodeBare, AreaPark}

\* The elements the direct lookups of Spec are answered with.
DirectElements == {NodePark, WayWood, RelationPark}

\* The element lists a response can carry: every element at most once.
ElementLists(E, n) ==
    {s \in UNION {[1..k -> E] : k \in 0..n} :
        \A i, j \in DOMAIN s : i # j => s[i] # s[j]}

\* What requests.post(...) can come back with: an exception (the provider is
\* unreachable), or an HTTP response with a status and a body that is either
\* not JSON or a JSON object with or without the key "elements".
OverpassBodies(E, n) ==
    {[json |-> FALSE, data |-> <<>>]}
    \cup {[json |-> TRUE, data |-> [remark |-> "runtime error"]]}
    \cup {[json |-> TRUE, data |-> [elements |-> es]] : es \in ElementLists(E, n)}

OverpassResponses(E, n) ==
    {[reachable |-> FALSE, status |-> 0, body |-> [json |-> FALSE, data |-> <<>>]]}
    \cup {[reachable |-> TRUE, status |-> st, body |-> b] :
            st \in {200, 504}, b \in OverpassBodies(E, n)}

(***************************************************************************)
(* The routing provider (OSRM)                                             *)
(***************************************************************************)
GeomA == [type |-> "LineString", coordinates |-> <<"a1", "a2">>]
GeomB == [type |-> "LineString", coordinates |-> <<"b1", "b2", "b3">>]

\* Distances in metres and durations in seconds.  Every sum of at most four
\* of these distances that ends in 5 is a multiple of 125, so that its
\* quotient by 1000 is a binary fraction and round() sees an exact tie.
OsrmRoutes ==
    {[geometry |-> GeomA, distance |-> 125, duration |-> 59],
     [geometry |-> GeomB, distance |-> 1004, duration |-> 90]}

OsrmBodies ==
    {[json |-> FALSE, data |-> <<>>]}
    \cup {[json |-> TRUE, data |-> [message |-> "no code"]]}
    \cup {[json |-> TRUE, data |-> [code |-> "NoRoute", message |-> "Impossible route"]]}
    \cup {[json |-> TRUE, data |-> [code |-> "NoSegment"]]}
    \cup {[json |-> TRUE, data |-> [code |-> "Ok", routes |-> <<>>]]}
    \cup {[json |-> TRUE, data |-> [code |-> "Ok", routes |-> <<r>>]] : r \in OsrmRoutes}

OsrmResponses ==
    {[reachable |-> FALSE, body |-> [json |-> FALSE, data |-> <<>>]]}
    \cup {[reachable |-> TRUE, body |-> b] : b \in OsrmBodies}

(***************************************************************************)
(* Files and JSON                                                          *)
(***************************************************************************)
\* json.dump: the text of a document, as the chunks that reach the file in
\* order: the opening brace, the members, the closing brace.
OpenBrace == [type |-> "{"]
CloseBrace == [type |-> "}"]
Hole == [type |-> "hole"]

json_dump(doc) == <<OpenBrace, doc, CloseBrace>>

\* A text json.load can parse.
IsJson(text) ==
    /\ Len(text) = 3
    /\ text[1] = OpenBrace
    /\ text[2].type \notin {"{", "}", "hole"}
    /\ text[3] = CloseBrace

\* A file written through a descriptor at the offset `pos`: the chunk
\* replaces what is there, after a hole when the file ends before `pos`.
WriteAt(text, pos, chunk) ==
    [i \in 1..(IF Len(text) > pos THEN Len(text) ELSE pos) |->
        IF i = pos THEN chunk
        ELSE IF i <= Len(text) THEN text[i]
        ELSE Hole]

\* json.load: the document of a complete text, JSONDecodeError otherwise.
json_load(text) ==
    IF IsJson(text)
    THEN [raised |-> FALSE, error |-> "", doc |-> text[2]]
    ELSE [raised |-> TRUE, error |-> "JSONDecodeError", doc |-> None]

\* Mutant: the cache is never consulted.
os_path_exists_Never(files, key) == FALSE

os_path_exists(files, key) == key \in DOMAIN files

\* The file `key` with the text `text`, created if missing.
WriteFile(files, key, text) ==
    [k \in DOMAIN files \cup {key} |-> IF k = key THEN text ELSE files[k]]

(***************************************************************************)
(* OpenStreetMapService.get_pois_around_point                              *)
(***************************************************************************)
\* cache_key = f"{lat}_{lon}_{radius}_{'_'.join(poi_types)}": the parts of
\* the key in the order the f-string writes them.
PoiCacheKey(lat, lon, radius, poi_types) == <<lat, lon, radius>> \o poi_types

\* properties = element.get('tags', {}) with osm_id and osm_type set.
\* Mutant: the type of the element is not recorded.
ElementProperties_NoOsmType(e) ==
    LET tags == IF "tags" \in DOMAIN e THEN e.tags ELSE <<>>
    IN  DictSet(tags, "osm_id", e.id)

\* properties = element.get('tags', {}) with osm_id and osm_type set.
ElementProperties(e) ==
    LET tags == IF "tags" \in DOMAIN e THEN e.tags ELSE <<>>
    IN  DictSet(DictSet(tags, "osm_id", e.id), "osm_type", e.type)

MakeFeature(e, geometry) ==
    [type |-> "Feature", geometry |-> geometry, properties |-> ElementProperties(e)]

\* The loop over data.get('elements', []): a node becomes a Point, a way
\* with a geometry a LineString, everything else is skipped.
RECURSIVE ToFeatures(_)
ToFeatures(elements) ==
    IF elements = <<>> THEN <<>>
    ELSE LET e == Head(elements)
             rest == ToFeatures(Tail(elements))
         IN  IF e.type = "node"
             THEN <<MakeFeature(e, [type |-> "Point",
                                    coordinates |-> <<e.lon, e.lat>>])>> \o rest
             ELSE IF e.type = "way" /\ "geometry" \in DOMAIN e
             THEN <<MakeFeature(e, [type |-> "LineString",
                                    coordinates |-> [i \in DOMAIN e.geometry |->
                                        <<e.geometry[i].lon, e.geometry[i].lat>>]])>> \o rest
             ELSE rest

\* The request to Overpass and the conversion of its answer to GeoJSON.
\* The status of the response is never read.
OverpassFetch(resp) ==
    IF ~resp.reachable
    THEN [raised |-> TRUE, error |-> "ConnectionError", doc |-> None]
    ELSE IF ~resp.body.json
    THEN [raised |-> TRUE, error |-> "JSONDecodeError", doc |-> None]
    ELSE LET data == resp.body.data
             elements == IF "elements" \in DOMAIN data THEN data.elements ELSE <<>>
         IN  [raised |-> FALSE, error |-> "",
              doc |-> [type |-> "FeatureCollection", features |-> ToFeatures(elements)]]

\* The whole call on the cache `files` when the provider would answer `resp`:
\* how it ends, what it returns, the cache it leaves and whether it asked
\* the provider.
get_pois_around_point(files, lat, lon, radius, types, resp) ==
    LET poi_types == IF types.given THEN types.value ELSE DefaultPoiTypes
        cache_key == PoiCacheKey(lat, lon, radius, poi_types)
    IN  IF os_path_exists(files, cache_key)
        THEN LET r == json_load(files[cache_key])
             IN  [outcome |-> IF r.raised THEN "raise" ELSE "return",
                  error |-> r.error, result |-> r.doc, files |-> files,
                  contacted |-> FALSE, key |-> cache_key]
        ELSE LET f == OverpassFetch(resp)
             IN  IF f.raised
                 THEN [outcome |-> "raise", error |-> f.error, result |-> None,
                       files |-> files, contacted |-> TRUE, key |-> cache_key]
                 ELSE [outcome |-> "return", error |-> "", result |-> f.doc,
                       files |-> WriteFile(files, cache_key, json_dump(f.doc)),
                       contacted |-> TRUE, key |-> cache_key]

(***************************************************************************)
(* RoutingService.get_walking_route                                        *)
(***************************************************************************)
\* cache_key = f"{start_lat}_{start_lon}_{end_lat}_{end_lon}"
RouteCacheKey(start_lat, start_lon, end_lat, end_lon) ==
    <<start_lat, start_lon, end_lat, end_lon>>

\* The request to OSRM and the extraction of the first route: what the body
\* of the try block does before it writes the cache.  result = None is the
\* `return None` of a code other than "Ok".
OsrmFetch(resp) ==
    IF ~resp.reachable
    THEN [raised |-> TRUE, error |-> "ConnectionError", result |-> None]
    ELSE IF ~resp.body.json
    THEN [raised |-> TRUE, error |-> "JSONDecodeError", result |-> None]
    ELSE LET data == resp.body.data
         IN  IF "code" \notin DOMAIN data
             THEN [raised |-> TRUE, error |-> "KeyError", result |-> None]
             ELSE IF data.code # "Ok"
             THEN [raised |-> FALSE, error |-> "", result |-> None]
             ELSE IF data.routes = <<>>
             THEN [raised |-> TRUE, error |-> "IndexError", result |-> None]
             ELSE LET route == data.routes[1]
                  IN  [raised |-> FALSE, error |-> "",
                       result |-> [type |-> "Feature",
                                   geometry |-> route.geometry,
                                   properties |->
                                       [distance |-> route.distance,
                                        duration |-> route.duration,
                                        duration_minutes |-> route.duration \div 60]]]

\* Mutant: no except clause, the exception leaves get_walking_route.
RouteAttempt_NoExcept(files, cache_key, resp) ==
    LET f == OsrmFetch(resp)
    IN  IF f.raised
        THEN [outcome |-> "raise", error |-> f.error, result |-> None, files |-> files]
        ELSE IF f.result = None
        THEN [outcome |-> "return", error |-> "", result |-> None, files |-> files]
        ELSE [outcome |-> "return", error |-> "", result |-> f.result,
              files |-> WriteFile(files, cache_key, json_dump(f.result))]

\* try: ... except Exception: return None, on a cache miss.
RouteAttempt(files, cache_key, resp) ==
    LET f == OsrmFetch(resp)
    IN  IF f.raised
        THEN [outcome |-> "return", error |-> "", result |-> None, files |-> files]
        ELSE IF f.result = None
        THEN [outcome |-> "return", error |-> "", result |-> None, files |-> files]
        ELSE [outcome |-> "return", error |-> "", result |-> f.result,
              files |-> WriteFile(files, cache_key, json_dump(f.result))]

get_walking_route(files, start_lat, start_lon, end_lat, end_lon, resp) ==
    LET cache_key == RouteCacheKey(start_lat, start_lon, end_lat, end_lon)
    IN  IF os_path_exists(files, cache_key)
        THEN LET r == json_load(files[cache_key])
             IN  [outcome |-> IF r.raised THEN "raise" ELSE "return",
                  error |-> r.error, result |-> r.doc, files |-> files,
                  contacted |-> FALSE, key |-> cache_key]
        ELSE LET a == RouteAttempt(files, cache_key, resp)
             IN  [outcome |-> a.outcome, error |-> a.error, result |-> a.result,
                  files |-> a.files, contacted |-> TRUE, key |-> cache_key]

(***************************************************************************)
(* RoutingService.generate_scenic_route                                    *)
(***************************************************************************)
\* dict == dict: the same items, in any order.
DictEq(d, e) == {d[i] : i \in DOMAIN d} = {e[i] : i \in DOMAIN e}

FeatureEq(p, q) ==
    /\ p.type = q.type
    /\ p.geometry = q.geometry
    /\ DictEq(p.properties, q.properties)

\* poi in selected_pois
InList(poi, list) == \E i \in DOMAIN list : FeatureEq(list[i], poi)

\* Mutant: one POI is enough.
NotEnoughPois_LessThanOne(pois) == Len(pois.features) < 1

\* len(pois['features']) < 2
NotEnoughPois(pois) == Len(pois.features) < 2

IsPark(p) ==
    DictHas(p.properties, "leisure") /\ DictGet(p.properties, "leisure") = "park"

IsAttraction(p) ==
    DictHas(p.properties, "tourism") \/ DictHas(p.properties, "historic")

\* The while loop that adds POIs that are not selected yet.  hang: the for
\* loop found nothing to add while the condition of the while loop holds, so
\* the while loop never ends; this needs two equal features in the pool.
RECURSIVE FillSelected(_, _)
FillSelected(features, selected) ==
    IF Len(selected) < 3 /\ Len(features) > Len(selected)
    THEN LET free == {i \in DOMAIN features : ~InList(features[i], selected)}
         IN  IF free = {}
             THEN [hang |-> TRUE, selected |-> selected]
             ELSE FillSelected(features,
                      Append(selected,
                             features[CHOOSE i \in free : \A j \in free : i <= j]))
    ELSE [hang |-> FALSE, selected |-> selected]

\* Mutant: the attraction is appended before the park.
SelectPois_AttractionFirst(features) ==
    LET parks == SelectSeq(features, IsPark)
        attractions == SelectSeq(features, IsAttraction)
        first == (IF attractions # <<>> THEN <<attractions[1]>> ELSE <<>>)
                 \o (IF parks # <<>> THEN <<parks[1]>> ELSE <<>>)
    IN  FillSelected(features, first)

SelectPois(features) ==
    LET parks == SelectSeq(features, IsPark)
        attractions == SelectSeq(features, IsAttraction)
        first == (IF parks # <<>> THEN <<parks[1]>> ELSE <<>>)
                 \o (IF attractions # <<>> THEN <<attractions[1]>> ELSE <<>>)
    IN  FillSelected(features, first)

\* (coords[1], coords[0]) of the coordinates of a POI, whatever its geometry;
\* Python counts from 0.
Waypoint(poi) ==
    LET coords == poi.geometry.coordinates
    IN  <<coords[2], coords[1]>>

RoutePoints(start_lat, start_lon, selected_pois) ==
    <<<<start_lat, start_lon>>>>
    \o [i \in DOMAIN selected_pois |-> Waypoint(selected_pois[i])]
    \o <<<<start_lat, start_lon>>>>

EmptyRoute ==
    [type |-> "FeatureCollection", features |-> <<>>,
     properties |-> [total_distance |-> 0, total_duration |-> 0, pois |-> <<>>]]

\* Mutant: the totals are assigned, not added to.
AppendLeg_AssignTotals(combined_route, route_segment) ==
    IF route_segment = None
    THEN combined_route
    ELSE [combined_route EXCEPT
             !.features = Append(@, route_segment),
             !.properties.total_distance = route_segment.properties.distance,
             !.properties.total_duration = route_segment.properties.duration]

\* Mutant: the leg is put in front of the legs obtained so far.
AppendLeg_InFront(combined_route, route_segment) ==
    IF route_segment = None
    THEN combined_route
    ELSE [combined_route EXCEPT
             !.features = <<route_segment>> \o @,
             !.properties.total_distance = @ + route_segment.properties.distance,
             !.properties.total_duration = @ + route_segment.properties.duration]

\* if route_segment: append it and add its distance and its duration.
AppendLeg(combined_route, route_segment) ==
    IF route_segment = None
    THEN combined_route
    ELSE [combined_route EXCEPT
             !.features = Append(@, route_segment),
             !.properties.total_distance = @ + route_segment.properties.distance,
             !.properties.total_duration = @ + route_segment.properties.duration]

\* Mutant: the loop ends at the first leg that failed.
MoreLegs_UntilFailure(i, route_points) ==
    /\ i <= Len(route_points) - 1
    /\ legLog # <<>> => legLog[Len(legLog)].result # None

\* for i in range(len(route_points) - 1), with i counted from 1.
MoreLegs(i, route_points) == i <= Len(route_points) - 1

CategoryKeys == {"leisure", "natural", "tourism", "historic"}

\* next((k for k, v in items if k in [...]), "point of interest"): the first
\* key of the dict, in the order of the dict, that is one of the four.
PoiCategory(properties) ==
    LET hits == {i \in DOMAIN properties : properties[i][1] \in CategoryKeys}
    IN  IF hits = {}
        THEN "point of interest"
        ELSE properties[CHOOSE i \in hits : \A j \in hits : i <= j][1]

PoiSummary(poi) ==
    [name |-> IF DictHas(poi.properties, "name")
              THEN DictGet(poi.properties, "name")
              ELSE "Unnamed location",
     type |-> PoiCategory(poi.properties),
     location |-> poi.geometry.coordinates]

\* round(metres / 1000, 2), in hundredths of a kilometre.  round() rounds the
\* binary quotient correctly and an exact tie to the even neighbour; the
\* distances of OsrmRoutes produce no other tie.
RoundKm(metres) ==
    LET q == metres \div 10
        r == metres % 10
    IN  IF r < 5 THEN q
        ELSE IF r > 5 THEN q + 1
        ELSE IF q % 2 = 0 THEN q ELSE q + 1

\* The POI summaries and the totals for display.
FinishRoute(combined_route, selected_pois) ==
    LET props == combined_route.properties
    IN  [type |-> combined_route.type,
         features |-> combined_route.features,
         properties |->
             [total_distance |-> props.total_distance,
              total_duration |-> props.total_duration,
              pois |-> [i \in DOMAIN selected_pois |-> PoiSummary(selected_pois[i])],
              total_distance_km |-> RoundKm(props.total_distance),
              total_duration_minutes |-> props.total_duration \div 60]]

(***************************************************************************)
(* History of the lookups                                                  *)
(***************************************************************************)
NoLast ==
    [op |-> "none", query |-> <<>>, key |-> <<>>, outcome |-> "", error |-> "", result |-> None,
     contacted |-> FALSE, known |-> FALSE,
     reachable |-> TRUE, status |-> 0, json |-> TRUE, code |-> ""]

\* The record of the call with the arguments `query` that ended as r; known:
\* a call with these arguments had succeeded before.  What the provider
\* answered is recorded only when the provider was asked.
LookupRecord(op, query, r, known, reachable, status, json, code) ==
    [op |-> op, query |-> query, key |-> r.key, outcome |-> r.outcome, error |-> r.error,
     result |-> r.result, contacted |-> r.contacted, known |-> known,
     reachable |-> IF r.contacted THEN reachable ELSE TRUE,
     status |-> IF r.contacted THEN status ELSE 0,
     json |-> IF r.contacted THEN json ELSE TRUE,
     code |-> IF r.contacted THEN code ELSE ""]

\* The first document a successful call with the arguments `query` returned.
Remember(first, query, r) ==
    IF r.outcome = "return" /\ r.result # None /\ query \notin DOMAIN first
    THEN [q \in DOMAIN first \cup {query} |-> IF q = query THEN r.result ELSE first[q]]
    ELSE first

OsrmCode(resp) ==
    IF resp.reachable /\ resp.body.json /\ "code" \in DOMAIN resp.body.data
    THEN resp.body.data.code
    ELSE ""

(***************************************************************************)
(* Requests                                                                *)
(***************************************************************************)
\* The answers a call can get from its provider: the provider is asked, and
\* its answer matters, only when the cache has no file for the key.
NoAnswer == [reachable |-> FALSE, status |-> 0, body |-> [json |-> FALSE, data |-> <<>>]]

Answers(files, cache_key, responses) ==
    IF os_path_exists(files, cache_key) THEN {NoAnswer} ELSE responses

Centers == {<<Num(1), Num(2)>>}
Radii == {Num(500), Num(1000)}
FilterLists ==
    {NoTypes,
     Types(<<"leisure=park", "natural=wood">>),
     Types(<<"natural=wood", "leisure=park">>)}
RouteEnds == {<<Num(1), Num(2)>>, <<Num(10), Num(20)>>}

\* generate_scenic_route before its first call.  ret is what the call
\* returned, outcome how it ended: "return", "raise" or "hang".
ScIdle ==
    [pc |-> "idle", start_lat |-> Num(0), start_lon |-> Num(0), max_distance_km |-> 0,
     pois |-> None, selected_pois |-> <<>>, route_points |-> <<>>, i |-> 0,
     combined_route |-> EmptyRoute, outcome |-> "", ret |-> None]

\* The workers of SpecConc, and a worker between two lookups.  seen is the
\* text json.load read, Unread before it reads; pending are the chunks
\* json.dump has not written yet.
Workers == 1..NumWorkers

Unread == <<"unread">>

WkIdle ==
    [pc |-> "idle", op |-> "none", key |-> <<>>, doc |-> None, pending |-> <<>>,
     seen |-> Unread, contacted |-> FALSE, outcome |-> "", error |-> "",
     result |-> None, ops |-> 0]

\* The /pois handler before its first call.  elements is the list of
\* elements Overpass answered with when it was asked last.
NotAsked == [contacted |-> FALSE, elements |-> <<>>, outcome |-> "", result |-> None]

\* The /routes/suggest handler between two requests.  calls are the calls
\* suggest_route made to the services; returned: suggest_route returned
\* `route`; outcome is how the handler ended, "return" with `response` or
\* "raise" with `error`.
RqIdle ==
    [pc |-> "idle", route_request |-> None, user_data |-> None, max_distance |-> 0,
     calls |-> <<>>,
     returned |-> FALSE, route |-> None, outcome |-> "", error |-> "", response |-> None]

Init ==
    /\ osmFiles = <<>>
    /\ routeFiles = <<>>
    /\ firstPoi = <<>>
    /\ firstRoute = <<>>
    /\ last = NoLast
    /\ nreq = 0
    /\ sc = ScIdle
    /\ legLog = <<>>
    /\ wk = [w \in Workers |-> WkIdle]
    /\ poisReq = NotAsked
    /\ rq = RqIdle
    /\ users = <<>>

\* One call of get_pois_around_point.
PoiLookup ==
    /\ nreq < MaxRequests
    /\ \E c \in Centers, radius \in Radii, types \in FilterLists :
       \E resp \in Answers(osmFiles,
                           PoiCacheKey(c[1], c[2], radius,
                                       IF types.given THEN types.value ELSE DefaultPoiTypes),
                           OverpassResponses(DirectElements, MaxBody)) :
          LET r == get_pois_around_point(osmFiles, c[1], c[2], radius, types, resp)
              query == <<c[1], c[2], radius, types>>
          IN  /\ osmFiles' = r.files
              /\ firstPoi' = Remember(firstPoi, query, r)
              /\ last' = LookupRecord("poi", query, r, query \in DOMAIN firstPoi,
                                      resp.reachable, resp.status, resp.body.json, "")
    /\ nreq' = nreq + 1
    /\ UNCHANGED <<routeFiles, firstRoute, sc, legLog, wk, poisReq, rq, users>>

\* One call of get_walking_route.
RouteLookup ==
    /\ nreq < MaxRequests
    /\ \E a \in RouteEnds, b \in RouteEnds :
       \E resp \in Answers(routeFiles, RouteCacheKey(a[1], a[2], b[1], b[2]),
                           OsrmResponses) :
          LET r == get_walking_route(routeFiles, a[1], a[2], b[1], b[2], resp)
              query == <<a[1], a[2], b[1], b[2]>>
          IN  /\ routeFiles' = r.files
              /\ firstRoute' = Remember(firstRoute, query, r)
              /\ last' = LookupRecord("route", query, r, query \in DOMAIN firstRoute,
                                      resp.reachable, 0, resp.body.json, OsrmCode(resp))
    /\ nreq' = nreq + 1
    /\ UNCHANGED <<osmFiles, firstPoi, sc, legLog, wk, poisReq, rq, users>>

Next == PoiLookup \/ RouteLookup

Spec == Init /\ [][Next]_vars

(***************************************************************************)
(* The scenic composer, one step per routing lookup                        *)
(***************************************************************************)
\* The arguments of generate_scenic_route: start_lat, start_lon and
\* max_distance_km.
ScenicCalls == {<<Num(1), Num(2), 1>>, <<Num(3), Num(4), 3>>}

\* Lines 215-259 after the POI lookup ended as r: the call ends when the
\* lookup raised, when there are fewer than 2 POIs or when the selection
\* never ends; otherwise the POIs are selected and the waypoints laid out.
ScenicEntered(start_lat, start_lon, km, r) ==
    LET sel == SelectPois(r.result.features)
        call == [ScIdle EXCEPT !.start_lat = start_lat, !.start_lon = start_lon,
                               !.max_distance_km = km]
    IN  IF r.outcome = "raise"
        THEN [call EXCEPT !.pc = "done", !.outcome = "raise"]
        ELSE IF NotEnoughPois(r.result)
        THEN [call EXCEPT !.pc = "done", !.outcome = "return",
                          !.pois = r.result, !.ret = None]
        ELSE IF sel.hang
        THEN [call EXCEPT !.pc = "done", !.outcome = "hang", !.pois = r.result]
        ELSE [call EXCEPT !.pc = "legs", !.pois = r.result,
                          !.selected_pois = sel.selected,
                          !.route_points = RoutePoints(start_lat, start_lon, sel.selected),
                          !.i = 1]

\* Lines 207-259: the POI lookup, the selection and the waypoints.  The
\* requests of one behaviour ask for the same loop.
ScenicStart ==
    /\ sc.pc \in {"idle", "done"}
    /\ nreq < MaxRequests
    /\ \E args \in ScenicCalls :
       /\ nreq > 0 => args = <<sc.start_lat, sc.start_lon, sc.max_distance_km>>
       /\ \E resp \in Answers(osmFiles,
                           PoiCacheKey(args[1], args[2], Num(args[3] * 1000), ScenicPoiTypes),
                           OverpassResponses(Elements, MaxElements)) :
          LET r == get_pois_around_point(osmFiles, args[1], args[2], Num(args[3] * 1000),
                                         Types(ScenicPoiTypes), resp)
          IN  /\ osmFiles' = r.files
              /\ sc' = ScenicEntered(args[1], args[2], args[3], r)
    /\ nreq' = nreq + 1
    /\ legLog' = <<>>
    /\ UNCHANGED <<routeFiles, firstPoi, firstRoute, last, wk, poisReq, rq, users>>

\* Lines 261-270: one turn of the loop over the legs.  An exception of
\* get_walking_route ends generate_scenic_route.
ScenicLeg ==
    /\ sc.pc = "legs"
    /\ MoreLegs(sc.i, sc.route_points)
    /\ \E resp \in Answers(routeFiles,
                           RouteCacheKey(sc.route_points[sc.i][1], sc.route_points[sc.i][2],
                                         sc.route_points[sc.i + 1][1],
                                         sc.route_points[sc.i + 1][2]),
                           OsrmResponses) :
          LET start == sc.route_points[sc.i]
              end == sc.route_points[sc.i + 1]
              r == get_walking_route(routeFiles, start[1], start[2], end[1], end[2], resp)
          IN  /\ routeFiles' = r.files
              /\ legLog' = Append(legLog, [start |-> start, end |-> end,
                                           outcome |-> r.outcome, result |-> r.result])
              /\ sc' = IF r.outcome = "raise"
                       THEN [sc EXCEPT !.pc = "done", !.outcome = "raise"]
                       ELSE [sc EXCEPT !.i = @ + 1,
                                       !.combined_route = AppendLeg(@, r.result)]
    /\ UNCHANGED <<osmFiles, firstPoi, firstRoute, last, nreq, wk, poisReq, rq, users>>

\* Lines 272-284: the POI summaries, the totals for display and the return.
ScenicFinish ==
    /\ sc.pc = "legs"
    /\ ~MoreLegs(sc.i, sc.route_points)
    /\ sc' = [sc EXCEPT !.pc = "done", !.outcome = "return",
                        !.ret = FinishRoute(sc.combined_route, sc.selected_pois)]
    /\ UNCHANGED <<osmFiles, routeFiles, firstPoi, firstRoute, last, nreq, legLog, wk,
                   poisReq, rq, users>>

NextScenic == ScenicStart \/ ScenicLeg \/ ScenicFinish

SpecScenic == Init /\ [][NextScenic]_vars

(***************************************************************************)
(* The /pois handler                                                       *)
(***************************************************************************)
\* latitude, longitude and radius of the requests.
PoisQueries == {<<Num(1), Num(2), Num(500)>>}

\* The elements of an answer of Overpass that carries some.
ElementsOf(resp) ==
    IF resp.reachable /\ resp.body.json /\ "elements" \in DOMAIN resp.body.data
    THEN resp.body.data.elements
    ELSE <<>>

\* GET /pois: get_pois_around_point(latitude, longitude, radius) with the
\* default filters.  poisReq keeps the elements of the answer the cached
\* document was made from while the document is served from the cache.
get_points_of_interest ==
    /\ nreq < MaxRequests
    /\ \E q \in PoisQueries :
       \E resp \in Answers(osmFiles, PoiCacheKey(q[1], q[2], q[3], DefaultPoiTypes),
                           OverpassResponses(AllElements, MaxElements)) :
          LET r == get_pois_around_point(osmFiles, q[1], q[2], q[3], NoTypes, resp)
          IN  /\ osmFiles' = r.files
              /\ poisReq' = [contacted |-> r.contacted,
                             elements |-> IF r.contacted THEN ElementsOf(resp)
                                          ELSE poisReq.elements,
                             outcome |-> r.outcome,
                             result |-> r.result]
    /\ nreq' = nreq + 1
    /\ UNCHANGED <<routeFiles, firstPoi, firstRoute, last, sc, legLog, wk, rq, users>>

NextPois == get_points_of_interest

SpecPois == Init /\ [][NextPois]_vars

(***************************************************************************)
(* The /routes/suggest handler and WalkingAssistant.suggest_route          *)
(***************************************************************************)
\* A Location, and an optional float that is given.
Location(lat, lon) == [latitude |-> lat, longitude |-> lon]
Km(n) == [type |-> "float", value |-> n]

UserIds == {"u1"}
DefaultMaxDistance == 5
Preferences == {2}

\* The RouteRequest bodies: max_distance_km absent, 0 or 1, with and without
\* an end location, scenic or not.
RouteRequests ==
    [user_id : UserIds,
     start_location : {Location(Num(1), Num(2))},
     end_location : {None, Location(Num(10), Num(20))},
     max_distance_km : {None, Km(0), Km(1)},
     scenic : BOOLEAN]

\* What Overpass answers the lookups of suggest_route with.
SuggestElements == {NodePark, NodeAttraction}

\* DatabaseService.get_user: the row of the user, None without one.
get_user(table, user_id) ==
    IF user_id \in DOMAIN table
    THEN [user_id |-> user_id, preferred_max_distance |-> table[user_id]]
    ELSE None

\* DatabaseService.create_user: the table after the INSERT; a user that
\* exists stays as it is.
create_user(table, user_id) ==
    IF user_id \in DOMAIN table
    THEN table
    ELSE [u \in DOMAIN table \cup {user_id} |->
             IF u = user_id THEN DefaultMaxDistance ELSE table[u]]

\* The truth value Python gives an optional float: None and 0 are false.
Truthy(x) == x # None /\ x.value # 0

\* route_request.max_distance_km or user_data['preferred_max_distance']
MaxDistance(route_request, user_data) ==
    IF Truthy(route_request.max_distance_km)
    THEN route_request.max_distance_km.value
    ELSE user_data.preferred_max_distance

\* Mutant: the end location is looked at before the scenic flag.
Branch_EndFirst(route_request) ==
    IF route_request.end_location # None THEN "direct"
    ELSE IF route_request.scenic THEN "scenic"
    ELSE "area"

\* if route_request.scenic: ... elif route_request.end_location: ... else: ...
Branch(route_request) ==
    IF route_request.scenic THEN "scenic"
    ELSE IF route_request.end_location # None THEN "direct"
    ELSE "area"

\* Lines 63-70: the user is read, and created when missing; the budget.
Entered(table, route_request) ==
    LET after == IF get_user(table, route_request.user_id) = None
                 THEN create_user(table, route_request.user_id)
                 ELSE table
        user_data == get_user(after, route_request.user_id)
    IN  [users |-> after,
         rq |-> [RqIdle EXCEPT !.pc = "composing", !.route_request = route_request,
                               !.user_data = user_data,
                               !.max_distance = MaxDistance(route_request, user_data)]]

Call(fn, args) == [fn |-> fn, args |-> args]

\* The polygon around (lat, lon) buffered by walking_time_minutes * 83
\* metres, as a collection of one feature.
generate_walkable_isochrone(lat, lon, walking_time_minutes) ==
    [type |-> "FeatureCollection",
     features |-> <<[type |-> "Feature",
                     geometry |-> [type |-> "Polygon", center |-> <<lon, lat>>,
                                   radius |-> walking_time_minutes * 83]]>>]

\* Lines 98-113: the walkable area as the route.  total_distance_km is kept
\* in hundredths of a kilometre, as RoundKm keeps it.
AreaRoute(isochrone, max_distance) ==
    [type |-> "FeatureCollection",
     features |-> <<[type |-> "Feature",
                     geometry |-> isochrone.features[1].geometry,
                     properties |-> [type |-> "walkable_area",
                                     estimated_walking_time_minutes |-> max_distance * 12]]>>,
     properties |-> [total_distance_km |-> 100 * max_distance,
                     total_duration_minutes |-> max_distance * 12]]

\* The answers of the language model: a text, or an exception.
LlmAnswers == {"text", "exception"}

\* generate_route_description of a route that is not None: the details are
\* read with defaults, and an exception of the model becomes a text.
generate_route_description(route, llm) ==
    LET p == route.properties
        pois == IF "pois" \in DOMAIN p THEN p.pois ELSE <<>>
    IN  [distance |-> IF "total_distance_km" \in DOMAIN p THEN p.total_distance_km ELSE 0,
         duration |-> IF "total_duration_minutes" \in DOMAIN p
                      THEN p.total_duration_minutes ELSE 0,
         pois |-> [i \in DOMAIN pois |-> <<pois[i].name, pois[i].type>>],
         text |-> IF llm = "text" THEN "description"
                  ELSE "Error generating route description"]

\* route["properties"]["description"] = description
WithDescription(route, description) ==
    [route EXCEPT !.properties =
        [k \in DOMAIN route.properties \cup {"description"} |->
            IF k = "description" THEN description ELSE route.properties[k]]]

\* suggest_route raised: the handler does, too.
Failed(q, error) ==
    [q EXCEPT !.pc = "done", !.returned = FALSE, !.outcome = "raise", !.error = error]

\* api.py lines 75-78 after suggest_route returned `route`:
\* generate_route_description subscripts route before its try block, which
\* raises TypeError for None.
Respond(q, route, llm) ==
    IF route = None
    THEN [q EXCEPT !.pc = "done", !.returned = TRUE, !.route = None,
                   !.outcome = "raise", !.error = "TypeError"]
    ELSE [q EXCEPT !.pc = "done", !.returned = TRUE, !.route = route,
                   !.outcome = "return",
                   !.response = WithDescription(route,
                                                generate_route_description(route, llm))]

\* POST /users/
RegisterUser ==
    /\ rq.pc \in {"idle", "done"}
    /\ \E u \in UserIds : users' = create_user(users, u)
    /\ UNCHANGED <<osmFiles, routeFiles, firstPoi, firstRoute, last, nreq, sc, legLog, wk,
                   poisReq, rq>>

\* PUT /users/{user_id}/preferences with max_distance: the UPDATE changes
\* the row of the user when there is one.
UpdatePreferences ==
    /\ rq.pc \in {"idle", "done"}
    /\ \E u \in UserIds, d \in Preferences :
          users' = IF u \in DOMAIN users THEN [users EXCEPT ![u] = d] ELSE users
    /\ UNCHANGED <<osmFiles, routeFiles, firstPoi, firstRoute, last, nreq, sc, legLog, wk,
                   poisReq, rq>>

\* POST /routes/suggest with the scenic flag: suggest_route enters
\* generate_scenic_route, which goes on with ScenicLeg and ScenicFinish.
SuggestScenic ==
    /\ rq.pc \in {"idle", "done"}
    /\ nreq < MaxSuggest
    /\ \E req \in RouteRequests :
       /\ Branch(req) = "scenic"
       /\ LET e == Entered(users, req)
              lat == req.start_location.latitude
              lon == req.start_location.longitude
          IN  \E resp \in Answers(osmFiles,
                                  PoiCacheKey(lat, lon, Num(e.rq.max_distance * 1000),
                                              ScenicPoiTypes),
                                  OverpassResponses(SuggestElements, MaxBody)) :
                 LET r == get_pois_around_point(osmFiles, lat, lon,
                                                Num(e.rq.max_distance * 1000),
                                                Types(ScenicPoiTypes), resp)
                 IN  /\ osmFiles' = r.files
                     /\ sc' = ScenicEntered(lat, lon, e.rq.max_distance, r)
                     /\ users' = e.users
                     /\ rq' = [e.rq EXCEPT !.calls =
                                  <<Call("generate_scenic_route",
                                         <<lat, lon, e.rq.max_distance>>)>>]
    /\ nreq' = nreq + 1
    /\ legLog' = <<>>
    /\ UNCHANGED <<routeFiles, firstPoi, firstRoute, last, wk, poisReq>>

\* The rest of the handler once generate_scenic_route ended.
SuggestAnswer ==
    /\ rq.pc = "composing"
    /\ sc.pc = "done"
    /\ sc.outcome # "hang"
    /\ \E llm \in LlmAnswers :
          rq' = IF sc.outcome = "raise"
                THEN Failed(rq, "raised by generate_scenic_route")
                ELSE Respond(rq, sc.ret, llm)
    /\ UNCHANGED <<osmFiles, routeFiles, firstPoi, firstRoute, last, nreq, sc, legLog, wk,
                   poisReq, users>>

\* POST /routes/suggest with an end location and no scenic flag.
SuggestDirect ==
    /\ rq.pc \in {"idle", "done"}
    /\ nreq < MaxSuggest
    /\ \E req \in RouteRequests :
       /\ Branch(req) = "direct"
       /\ LET e == Entered(users, req)
              a == req.start_location
              b == req.end_location
          IN  \E resp \in Answers(routeFiles,
                                  RouteCacheKey(a.latitude, a.longitude,
                                                b.latitude, b.longitude),
                                  OsrmResponses),
                 llm \in LlmAnswers :
                 LET r == get_walking_route(routeFiles, a.latitude, a.longitude,
                                            b.latitude, b.longitude, resp)
                     q == [e.rq EXCEPT !.calls =
                              <<Call("get_walking_route",
                                     <<a.latitude, a.longitude,
                                       b.latitude, b.longitude>>)>>]
                 IN  /\ routeFiles' = r.files
                     /\ users' = e.users
                     /\ rq' = IF r.outcome = "raise"
                              THEN Failed(q, r.error)
                              ELSE Respond(q, r.result, llm)
    /\ nreq' = nreq + 1
    /\ sc' = ScIdle
    /\ legLog' = <<>>
    /\ UNCHANGED <<osmFiles, firstPoi, firstRoute, last, wk, poisReq>>

\* POST /routes/suggest with neither: the walkable area and the POIs in it.
SuggestArea ==
    /\ rq.pc \in {"idle", "done"}
    /\ nreq < MaxSuggest
    /\ \E req \in RouteRequests :
       /\ Branch(req) = "area"
       /\ LET e == Entered(users, req)
              lat == req.start_location.latitude
              lon == req.start_location.longitude
              d == e.rq.max_distance
          IN  \E resp \in Answers(osmFiles,
                                  PoiCacheKey(lat, lon, Num(d * 1000), DefaultPoiTypes),
                                  OverpassResponses(SuggestElements, MaxBody)),
                 llm \in LlmAnswers :
                 LET isochrone == generate_walkable_isochrone(lat, lon, d * 12)
                     route == AreaRoute(isochrone, d)
                     r == get_pois_around_point(osmFiles, lat, lon, Num(d * 1000),
                                                NoTypes, resp)
                     q == [e.rq EXCEPT !.calls =
                              <<Call("generate_walkable_isochrone", <<lat, lon, d * 12>>),
                                Call("get_pois_around_point", <<lat, lon, Num(d * 1000)>>)>>]
                 IN  /\ osmFiles' = r.files
                     /\ users' = e.users
                     /\ rq' = IF r.outcome = "raise"
                              THEN Failed(q, r.error)
                              ELSE Respond(q, [route EXCEPT !.features =
                                                   @ \o r.result.features], llm)
    /\ nreq' = nreq + 1
    /\ sc' = ScIdle
    /\ legLog' = <<>>
    /\ UNCHANGED <<routeFiles, firstPoi, firstRoute, last, wk, poisReq>>

NextSuggest ==
    \/ RegisterUser
    \/ UpdatePreferences
    \/ SuggestScenic
    \/ ScenicLeg
    \/ ScenicFinish
    \/ SuggestAnswer
    \/ SuggestDirect
    \/ SuggestArea

SpecSuggest == Init /\ [][NextSuggest]_vars

(***************************************************************************)
(* Workers that share the cache directories                                *)
(***************************************************************************)
\* The lookups the workers perform: get_pois_around_point(1, 2, 500) and
\* get_walking_route(1, 2, 10, 20).
ConcPoiKey == PoiCacheKey(Num(1), Num(2), Num(500), DefaultPoiTypes)
ConcRouteKey == RouteCacheKey(Num(1), Num(2), Num(10), Num(20))
ConcOverpassResponses == OverpassResponses({NodePark}, 1)

FilesOf(op) == IF op = "poi" THEN osmFiles ELSE routeFiles

\* The cache directory of `op` becomes `files`, the other one stays.
SetFiles(op, files) ==
    IF op = "poi"
    THEN osmFiles' = files /\ UNCHANGED routeFiles
    ELSE routeFiles' = files /\ UNCHANGED osmFiles

UnchangedHistory == UNCHANGED <<firstPoi, firstRoute, last, nreq, sc, legLog, poisReq, rq, users>>

\* The call ends: it returns `result`, or raises `error`.
Return(w, result) ==
    [wk[w] EXCEPT !.pc = "idle", !.outcome = "return", !.error = "", !.result = result]
Raise(w, error) ==
    [wk[w] EXCEPT !.pc = "idle", !.outcome = "raise", !.error = error, !.result = None]

\* A worker enters get_pois_around_point or get_walking_route and builds the
\* cache key.
ConcCall(w) ==
    /\ wk[w].pc = "idle"
    /\ wk[w].ops < MaxOps
    /\ \E op \in {"poi", "route"} :
          wk' = [wk EXCEPT ![w] =
                    [WkIdle EXCEPT !.pc = "check", !.op = op,
                                   !.key = IF op = "poi" THEN ConcPoiKey ELSE ConcRouteKey,
                                   !.ops = wk[w].ops + 1]]
    /\ UNCHANGED <<osmFiles, routeFiles>>
    /\ UnchangedHistory

\* if os.path.exists(cache_file)
ConcCheck(w) ==
    /\ wk[w].pc = "check"
    /\ wk' = [wk EXCEPT ![w].pc =
                 IF os_path_exists(FilesOf(wk[w].op), wk[w].key) THEN "read" ELSE "fetch"]
    /\ UNCHANGED <<osmFiles, routeFiles>>
    /\ UnchangedHistory

\* with open(cache_file, 'r') as f: return json.load(f), outside any try.
ConcRead(w) ==
    /\ wk[w].pc = "read"
    /\ LET text == FilesOf(wk[w].op)[wk[w].key]
           r == json_load(text)
       IN  wk' = [wk EXCEPT ![w] =
                     [(IF r.raised THEN Raise(w, r.error) ELSE Return(w, r.doc))
                         EXCEPT !.seen = text]]
    /\ UNCHANGED <<osmFiles, routeFiles>>
    /\ UnchangedHistory

\* The request to the provider and the conversion of its answer.
ConcFetch(w) ==
    /\ wk[w].pc = "fetch"
    /\ \/ /\ wk[w].op = "poi"
          /\ \E resp \in ConcOverpassResponses :
                LET f == OverpassFetch(resp)
                    asked == [wk EXCEPT ![w].contacted = TRUE]
                IN  wk' = IF f.raised
                          THEN [asked EXCEPT ![w] = [Raise(w, f.error) EXCEPT !.contacted = TRUE]]
                          ELSE [asked EXCEPT ![w].pc = "open", ![w].doc = f.doc]
       \/ /\ wk[w].op = "route"
          /\ \E resp \in OsrmResponses :
                LET f == OsrmFetch(resp)
                    asked == [wk EXCEPT ![w].contacted = TRUE]
                IN  wk' = IF f.raised \/ f.result = None
                          THEN [asked EXCEPT ![w] = [Return(w, None) EXCEPT !.contacted = TRUE]]
                          ELSE [asked EXCEPT ![w].pc = "open", ![w].doc = f.result]
    /\ UNCHANGED <<osmFiles, routeFiles>>
    /\ UnchangedHistory

\* open(cache_file, 'w'): the file exists and is empty.
ConcOpen(w) ==
    /\ wk[w].pc = "open"
    /\ SetFiles(wk[w].op, WriteFile(FilesOf(wk[w].op), wk[w].key, <<>>))
    /\ wk' = [wk EXCEPT ![w].pc = "write", ![w].pending = json_dump(wk[w].doc)]
    /\ UnchangedHistory

\* json.dump(..., f): the next chunk of the text reaches the file, at the
\* offset of the worker's descriptor.
ConcWrite(w) ==
    /\ wk[w].pc = "write"
    /\ wk[w].pending # <<>>
    /\ LET files == FilesOf(wk[w].op)
           pos == Len(json_dump(wk[w].doc)) - Len(wk[w].pending) + 1
       IN  SetFiles(wk[w].op,
                    WriteFile(files, wk[w].key,
                              WriteAt(files[wk[w].key], pos, Head(wk[w].pending))))
    /\ wk' = [wk EXCEPT ![w].pending = Tail(@)]
    /\ UnchangedHistory

\* The file is closed and the document returned.
ConcClose(w) ==
    /\ wk[w].pc = "write"
    /\ wk[w].pending = <<>>
    /\ wk' = [wk EXCEPT ![w] = Return(w, wk[w].doc)]
    /\ UNCHANGED <<osmFiles, routeFiles>>
    /\ UnchangedHistory

NextConc ==
    \E w \in Workers :
        \/ ConcCall(w)
        \/ ConcCheck(w)
        \/ ConcRead(w)
        \/ ConcFetch(w)
        \/ ConcOpen(w)
        \/ ConcWrite(w)
        \/ ConcClose(w)

SpecConc == Init /\ [][NextConc]_vars

(***************************************************************************)
(* Claims about the two lookups, under Spec                                *)
(***************************************************************************)
FirstDocument(l) ==
    IF l.op = "poi" THEN firstPoi[l.query] ELSE firstRoute[l.query]

\* C1: once a POI lookup or a routing lookup has succeeded, every later call
\* with the same arguments returns the document of that first success and
\* does not ask the provider.
C1_CacheIdempotence ==
    last.known =>
        /\ last.outcome = "return"
        /\ last.result = FirstDocument(last)
        /\ ~last.contacted

C1_Witness ==
    /\ last.op = "poi"
    /\ last.known
    /\ last.outcome = "return"
    /\ ~last.contacted
    /\ Len(last.result.features) = 2

\* The filters a POI lookup with the argument `types` asks for.
FilterSet(types) ==
    LET poi_types == IF types.given THEN types.value ELSE DefaultPoiTypes
    IN  {poi_types[i] : i \in DOMAIN poi_types}

\* The queries that had succeeded before the last lookup started.
PriorPoiQueries == {q \in DOMAIN firstPoi : q # last.query \/ last.known}

\* C2: a POI lookup with the centre, the radius and the set of filters of an
\* earlier successful lookup, the filters in any order, is a cache hit that
\* does not ask the provider.
C2_KeyIgnoresFilterOrder ==
    (/\ last.op = "poi"
     /\ \E q \in PriorPoiQueries :
           /\ q[1] = last.query[1] /\ q[2] = last.query[2] /\ q[3] = last.query[3]
           /\ FilterSet(q[4]) = FilterSet(last.query[4]))
    => ~last.contacted

\* C4: a lookup that fails leaves no cache entry for its key: a POI lookup
\* whose provider was unreachable, answered something that is not JSON or
\* answered with a status other than 200, and a routing lookup that returned
\* None.
C4_FailedLookupNotCached ==
    /\ (/\ last.op = "poi"
        /\ last.contacted
        /\ (~last.reachable \/ ~last.json \/ last.status # 200))
       => last.key \notin DOMAIN osmFiles
    /\ (/\ last.op = "route"
        /\ last.outcome = "return"
        /\ last.result = None)
       => last.key \notin DOMAIN routeFiles

\* C5: on a cache miss get_walking_route returns None and raises nothing when
\* the routing provider is unreachable, answers something that is not JSON,
\* or reports a code other than "Ok".
C5_RouteFailureIsAbsent ==
    (/\ last.op = "route"
     /\ last.contacted
     /\ (~last.reachable \/ ~last.json \/ last.code # "Ok"))
    => (last.outcome = "return" /\ last.result = None)

C5_Witness ==
    /\ last.op = "route"
    /\ last.contacted
    /\ ~last.reachable
    /\ last.outcome = "return"
    /\ last.result = None
    /\ routeFiles # <<>>

(***************************************************************************)
(* Claims about cache entries that cannot be read, under SpecConc          *)
(***************************************************************************)
\* C3: a lookup that finds a cache entry it cannot parse treats it as a
\* miss: it asks the provider again and ends without an error from the entry.
C3_CorruptEntryIsMiss ==
    \A w \in Workers :
        (wk[w].seen # Unread /\ ~IsJson(wk[w].seen)) =>
            /\ wk[w].outcome # "raise"
            /\ wk[w].pc = "idle" => wk[w].contacted

\* C6: a lookup never reads a partially written cache entry: the text it
\* reads is a complete document.
C6_NoPartialRead ==
    \A w \in Workers : wk[w].seen # Unread => IsJson(wk[w].seen)

(***************************************************************************)
(* Claims about the scenic composer, under SpecScenic                      *)
(***************************************************************************)
Returned == sc.pc = "done" /\ sc.outcome = "return"

\* C7: generate_scenic_route returns None, and asks for no leg, whenever the
\* POI lookup yields fewer than 2 POIs.
C7_TooFewPoisNoRoute ==
    (sc.pc # "idle" /\ sc.pois # None /\ Len(sc.pois.features) < 2) =>
        /\ Returned
        /\ sc.ret = None
        /\ legLog = <<>>

C7_Witness ==
    /\ Returned
    /\ sc.pois # None
    /\ Len(sc.pois.features) = 1
    /\ sc.ret = None
    /\ sc.max_distance_km = 3

RECURSIVE SumOf(_, _)
SumOf(features, field) ==
    IF features = <<>> THEN 0
    ELSE features[1].properties[field] + SumOf(Tail(features), field)

\* c hundredths of a kilometre are metres / 1000 rounded to 2 places.
IsRounded(c, metres) ==
    /\ 10 * c - metres \in -5..5
    /\ (10 * c - metres \in {-5, 5}) => c % 2 = 0

\* C8: in every route generate_scenic_route returns, total_distance and
\* total_duration are the sums over the legs in features, total_distance_km
\* is total_distance / 1000 rounded to 2 places and total_duration_minutes is
\* the floor of total_duration / 60.
C8_TotalsAreSums ==
    (Returned /\ sc.ret # None) =>
        LET p == sc.ret.properties
        IN  /\ p.total_distance = SumOf(sc.ret.features, "distance")
            /\ p.total_duration = SumOf(sc.ret.features, "duration")
            /\ IsRounded(p.total_distance_km, p.total_distance)
            /\ 60 * p.total_duration_minutes <= p.total_duration
            /\ p.total_duration < 60 * (p.total_duration_minutes + 1)

C8_Witness ==
    /\ Returned
    /\ sc.ret # None
    /\ Len(sc.ret.features) = 3
    /\ Len(legLog) = 4
    /\ sc.ret.properties.total_distance = 1254
    /\ sc.ret.properties.total_duration_minutes = 3

\* The legs of the loop over the selected POIs: start -> P1, ..., Pk -> start.
ExpectedLegs ==
    LET stops == <<<<sc.start_lat, sc.start_lon>>>>
                 \o [j \in DOMAIN sc.selected_pois |->
                        <<sc.selected_pois[j].geometry.coordinates[2],
                          sc.selected_pois[j].geometry.coordinates[1]>>]
                 \o <<<<sc.start_lat, sc.start_lon>>>>
    IN  [j \in 1..(Len(stops) - 1) |-> [start |-> stops[j], end |-> stops[j + 1]]]

LegOk(leg) == leg.outcome = "return" /\ leg.result # None

RECURSIVE Successful(_)
Successful(legs) ==
    IF legs = <<>> THEN <<>>
    ELSE (IF LegOk(legs[1]) THEN <<legs[1].result>> ELSE <<>>) \o Successful(Tail(legs))

\* C9: the features of a returned route are the results of the legs
\* start -> P1, ..., Pk -> start that succeeded, each once, in visiting order.
C9_FeaturesAreSuccessfulLegs ==
    (Returned /\ sc.ret # None) =>
        /\ Len(legLog) = Len(ExpectedLegs)
        /\ \A j \in DOMAIN legLog :
              legLog[j].start = ExpectedLegs[j].start /\ legLog[j].end = ExpectedLegs[j].end
        /\ sc.ret.features = Successful(legLog)

C9_Witness ==
    /\ Returned
    /\ sc.ret # None
    /\ Len(legLog) = 4
    /\ ~LegOk(legLog[2])
    /\ Len(sc.ret.features) = 3
    /\ sc.ret.features[1] # sc.ret.features[2]

\* C10: for k selected POIs the composer asks the router for the k + 1 legs
\* start -> P1, ..., Pk -> start in this order, and a leg that failed does
\* not stop it asking for the next one.
C10_AllLegsRequested ==
    /\ (sc.pc = "legs" \/ (sc.pc = "done" /\ sc.selected_pois # <<>>)) =>
          /\ Len(legLog) <= Len(sc.selected_pois) + 1
          /\ \A j \in DOMAIN legLog :
                legLog[j].start = ExpectedLegs[j].start /\ legLog[j].end = ExpectedLegs[j].end
    /\ (sc.pc = "done" /\ sc.selected_pois # <<>>) =>
          Len(legLog) = Len(sc.selected_pois) + 1

C10_Witness ==
    /\ sc.pc = "done"
    /\ Len(sc.selected_pois) = 3
    /\ Len(legLog) = 4
    /\ ~LegOk(legLog[1])
    /\ LegOk(legLog[4])

\* generate_scenic_route got past the selection of the POIs.
SelectionMade == sc.pc = "legs" \/ (sc.pc = "done" /\ sc.selected_pois # <<>>)

MinOf(S) == CHOOSE i \in S : \A j \in S : i <= j

\* C11: the first POI in return order tagged leisure=park, if any, is
\* selected first; then the first POI in return order that carries a
\* tourism or a historic tag, if any; every later slot holds the first POI in
\* return order that no earlier slot holds.
C11_SelectionPriority ==
    SelectionMade =>
        LET f == sc.pois.features
            s == sc.selected_pois
            parks == {i \in DOMAIN f : << "leisure", "park" >> \in
                                           {f[i].properties[n] : n \in DOMAIN f[i].properties}}
            attractions == {i \in DOMAIN f :
                               \E n \in DOMAIN f[i].properties :
                                  f[i].properties[n][1] \in {"tourism", "historic"}}
            np == IF parks = {} THEN 0 ELSE 1
            na == IF attractions = {} THEN 0 ELSE 1
        IN  /\ Len(s) >= np + na
            /\ parks # {} => s[1] = f[MinOf(parks)]
            /\ attractions # {} => s[np + 1] = f[MinOf(attractions)]
            /\ \A k \in (np + na + 1)..Len(s) :
                  LET free == {i \in DOMAIN f : \A m \in 1..(k - 1) : s[m] # f[i]}
                  IN  free # {} /\ s[k] = f[MinOf(free)]

C11_Witness ==
    /\ SelectionMade
    /\ Len(sc.pois.features) = 3
    /\ Len(sc.selected_pois) = 3
    /\ IsPark(sc.pois.features[3])
    /\ IsAttraction(sc.pois.features[2])
    /\ ~IsPark(sc.pois.features[1]) /\ ~IsAttraction(sc.pois.features[1])
    /\ sc.selected_pois[1] = sc.pois.features[3]
    /\ sc.selected_pois[2] = sc.pois.features[2]
    /\ sc.selected_pois[3] = sc.pois.features[1]

\* C12: the selection stops only when 3 POIs are chosen or the pool is
\* exhausted: when fewer than 3 POIs are selected from a pool of 2 or more,
\* every POI of the pool is among the selected ones.
C12_StopsWhenFullOrExhausted ==
    (SelectionMade /\ Len(sc.pois.features) >= 2 /\ Len(sc.selected_pois) < 3) =>
        \A i \in DOMAIN sc.pois.features :
            \E k \in DOMAIN sc.selected_pois : sc.selected_pois[k] = sc.pois.features[i]

\* C19: no POI is selected more than once: the selected POIs of a pool of
\* pairwise distinct features are pairwise distinct, no leg goes from a POI
\* to itself and no POI summary occurs twice.
C19_SelectedOnce ==
    (SelectionMade /\ \A i, j \in DOMAIN sc.pois.features :
                          i # j => sc.pois.features[i] # sc.pois.features[j]) =>
        /\ \A k, m \in DOMAIN sc.selected_pois :
              k # m => sc.selected_pois[k] # sc.selected_pois[m]
        /\ \A n \in DOMAIN legLog : legLog[n].start # legLog[n].end
        /\ (Returned /\ sc.ret # None) =>
              \A k, m \in DOMAIN sc.ret.properties.pois :
                  k # m => sc.ret.properties.pois[k] # sc.ret.properties.pois[m]

PriorityList == <<"leisure", "natural", "tourism", "historic">>

\* The first key of PriorityList, in the order of PriorityList, that is among
\* the keys of the properties.
CategoryByPriority(properties) ==
    LET keys == {properties[n][1] : n \in DOMAIN properties}
        hits == {i \in DOMAIN PriorityList : PriorityList[i] \in keys}
    IN  IF hits = {} THEN "point of interest" ELSE PriorityList[MinOf(hits)]

\* C18: in the POI summaries of a returned scenic route, the type of each
\* selected POI is the first key of the priority list leisure, natural,
\* tourism, historic that is among the properties of the POI, and "point of
\* interest" when none of the four is.
C18_CategoryByPriority ==
    (Returned /\ sc.ret # None) =>
        /\ Len(sc.ret.properties.pois) = Len(sc.selected_pois)
        /\ \A k \in DOMAIN sc.selected_pois :
              sc.ret.properties.pois[k].type =
                  CategoryByPriority(sc.selected_pois[k].properties)

\* A latitude or a longitude: a number, not a list.
Coordinates == {Num(n) : n \in 0..90}

\* The positions [lon, lat] of a POI.
PositionsOf(poi) ==
    IF poi.geometry.type = "Point"
    THEN {poi.geometry.coordinates}
    ELSE {poi.geometry.coordinates[n] : n \in DOMAIN poi.geometry.coordinates}

\* C20: for every selected POI, Point or LineString, the waypoint passed to
\* the router is one (latitude, longitude) pair of numbers that is a position
\* of that POI.
C20_WaypointIsLatLon ==
    SelectionMade =>
        /\ Len(sc.route_points) = Len(sc.selected_pois) + 2
        /\ \A k \in DOMAIN sc.selected_pois :
              LET w == sc.route_points[k + 1]
              IN  /\ Len(w) = 2
                  /\ w[1] \in Coordinates
                  /\ w[2] \in Coordinates
                  /\ \E p \in PositionsOf(sc.selected_pois[k]) : w = <<p[2], p[1]>>

\* The elements the claim lets through: nodes, and ways with a geometry.
Representable(e) == e.type = "node" \/ (e.type = "way" /\ "geometry" \in DOMAIN e)

KeysOf(properties) == {properties[n][1] : n \in DOMAIN properties}

ValueOf(properties, key) ==
    properties[CHOOSE n \in DOMAIN properties : properties[n][1] = key][2]

\* C17: every feature of a document the POI lookup returns, fresh or from the
\* cache, is a Point or a LineString and carries osm_id and osm_type; the
\* features are those of the nodes and of the ways with a geometry, one each,
\* and no relation, element of another type or way without geometry has one.
C17_FeaturesWellFormed ==
    poisReq.outcome = "return" =>
        LET fs == poisReq.result.features
            es == poisReq.elements
            kept == {i \in DOMAIN es : Representable(es[i])}
        IN  /\ \A n \in DOMAIN fs :
                  /\ fs[n].geometry.type \in {"Point", "LineString"}
                  /\ {"osm_id", "osm_type"} \subseteq KeysOf(fs[n].properties)
                  /\ \E i \in kept :
                        /\ ValueOf(fs[n].properties, "osm_id") = es[i].id
                        /\ ValueOf(fs[n].properties, "osm_type") = es[i].type
            /\ Len(fs) = Cardinality(kept)
            /\ \A i \in DOMAIN es \ kept :
                  \A n \in DOMAIN fs : ValueOf(fs[n].properties, "osm_id") # es[i].id

\* A document served from the cache that was made from a relation, an area
\* and a way: only the way has a feature.
C17_Witness ==
    /\ poisReq.outcome = "return"
    /\ ~poisReq.contacted
    /\ Len(poisReq.elements) = 3
    /\ \E i, j, k \in DOMAIN poisReq.elements :
          /\ poisReq.elements[i].type = "relation"
          /\ poisReq.elements[j].type = "area"
          /\ poisReq.elements[k].type = "way" /\ "geometry" \in DOMAIN poisReq.elements[k]
    /\ Len(poisReq.result.features) = 1
    /\ poisReq.result.features[1].geometry.type = "LineString"

\* suggest_route of the current request is over.
Suggested == rq.pc = "done"

Fns(calls) == [i \in DOMAIN calls |-> calls[i].fn]

\* C13: suggest_route takes one branch: with the scenic flag it calls only
\* the scenic composer, even when an end location is given; otherwise with an
\* end location only the router, for one leg from start to end; otherwise
\* the isochrone and the POI lookup around the start, and never the router.
C13_OneBranchInOrder ==
    rq.pc \in {"composing", "done"} =>
        LET req == rq.route_request
            a == req.start_location
            b == req.end_location
        IN  /\ req.scenic =>
                  /\ Fns(rq.calls) = <<"generate_scenic_route">>
                  /\ rq.calls[1].args[1] = a.latitude /\ rq.calls[1].args[2] = a.longitude
            /\ (~req.scenic /\ b # None) =>
                  /\ rq.calls = <<[fn |-> "get_walking_route",
                                   args |-> <<a.latitude, a.longitude,
                                              b.latitude, b.longitude>>]>>
                  /\ legLog = <<>>
            /\ (~req.scenic /\ b = None) =>
                  /\ Fns(rq.calls) = <<"generate_walkable_isochrone", "get_pois_around_point">>
                  /\ \A i \in DOMAIN rq.calls :
                        rq.calls[i].args[1] = a.latitude /\ rq.calls[i].args[2] = a.longitude
                  /\ legLog = <<>>

\* A scenic request with an end location that was answered with a route.
C13_Witness ==
    /\ Suggested
    /\ rq.route_request.scenic
    /\ rq.route_request.end_location # None
    /\ rq.outcome = "return"
    /\ Len(rq.response.features) = 3
    /\ Fns(rq.calls) = <<"generate_scenic_route">>

\* The distance budget the calls of suggest_route were made with, where the
\* branch uses one.
BudgetUsed(calls) ==
    IF calls[1].fn = "generate_scenic_route" THEN {calls[1].args[3]}
    ELSE IF calls[1].fn = "generate_walkable_isochrone" THEN {calls[1].args[3] \div 12}
    ELSE {}

\* C14: when the request supplies max_distance_km, 0 included, suggest_route
\* uses that value as the distance budget; the stored preferred_max_distance
\* of the user is used only when the request supplies none.
C14_RequestBudgetWins ==
    rq.pc \in {"composing", "done"} =>
        LET given == rq.route_request.max_distance_km
            budget == IF given # None THEN given.value
                      ELSE rq.user_data.preferred_max_distance
        IN  /\ rq.max_distance = budget
            /\ BudgetUsed(rq.calls) \subseteq {budget}

\* A document that reports a route: a collection with at least one leg, or
\* with a distance or a duration above zero.
HasRoute(doc) ==
    \/ doc.type = "Feature"
    \/ doc.features # <<>>
    \/ doc.properties.total_distance_km > 0
    \/ doc.properties.total_duration_minutes > 0

\* C15: route suggestion never yields a silent empty success: when no usable
\* route can be built, as when every leg of a scenic route fails, neither
\* suggest_route nor the handler returns a route document with no legs and
\* zero totals.
C15_NoSilentEmptySuccess ==
    Suggested =>
        /\ (rq.returned /\ rq.route # None) => HasRoute(rq.route)
        /\ rq.outcome = "return" => HasRoute(rq.response)

\* C16: when suggest_route yields no route (a scenic request with fewer than
\* 2 POIs, or a point-to-point request whose routing lookup returned absent),
\* the handler of /routes/suggest answers with a result and does not end with
\* an unhandled exception.
C16_NoRouteIsAnswered ==
    (Suggested /\ rq.returned /\ rq.route = None) =>
        /\ rq.outcome = "return"
        /\ rq.response # None

====
